---- MODULE Spec2Model ----
(***************************************************************************)
(* World Energy Consumption Dashboard (src/energy_app.py).                 *)
(*                                                                         *)
(* The script is re-run from top to bottom on every user interaction; the  *)
(* only thing that survives a run is the memoised result of                *)
(* load_energy_data and the widgets' values.  The model has one action per *)
(* interaction, each of which performs a whole run of main().              *)
(*                                                                         *)
(* Real-valued results are kept exactly: a percentage or a mean is the     *)
(* fraction [num, den]; a compound growth rate ((last/first)^(1/n)-1)*100  *)
(* is the triple [last, first, n], compared by GrowthLess.                 *)
(* Columns that no derivation ever reads (gdp, population,                 *)
(* electricity_generation) are left out of the rows.                       *)
(***************************************************************************)
EXTENDS Integers, Sequences, FiniteSets, TLC

VARIABLES
    file,      \* the CSV on disk: [status, rows]
    cache,     \* st.cache_data memo of load_energy_data()
    df,        \* main's table `df` as the last run left it
    widgets,   \* the sidebar / selectbox values of the session
    out,       \* what the last run of main() computed and rendered
    runs,      \* number of runs of main() so far
    call,      \* (function-level specification) the call made
    ret        \* (function-level specification) what it returned

vars == <<file, cache, df, widgets, out, runs, call, ret>>

----------------------------------------------------------------------------
(* Bounds of the model *)

MaxRows == 2
MaxFnRows == 2
MaxVal == 2
MaxN == 2
MaxInteractions == 1
MaxPick == 2

(* Program constants *)

TopNDefault == 10
DefaultCountries == 5
DefaultSpan == 10
SampleFirstYear == 2000
SampleLastYear == 2022

----------------------------------------------------------------------------
(* Columns *)

renewable_cols ==
    <<"hydro_consumption", "wind_consumption", "solar_consumption",
      "other_renewable_consumption">>

fossil_cols == <<"coal_consumption", "gas_consumption", "oil_consumption">>

\* label -> column, in the order of the energy_sources dict
MixSources ==
    << <<"Coal", "coal_consumption">>, <<"Natural Gas", "gas_consumption">>,
       <<"Oil", "oil_consumption">>, <<"Nuclear", "nuclear_consumption">>,
       <<"Hydro", "hydro_consumption">>, <<"Wind", "wind_consumption">>,
       <<"Solar", "solar_consumption">>,
       <<"Other Renewables", "other_renewable_consumption">> >>

SourceCols == {MixSources[i][2] : i \in 1..Len(MixSources)}

energy_columns == SourceCols \cup {"primary_energy_consumption"}

\* a missing cell of the CSV (NaN); every real value is >= 0
NaN == 0 - 1

\* a missing country cell
NoCountry == "NaN"

\* sorted() on country names: the names the model uses, in string order
Alphabet ==
    <<"A", "B", "Brazil", "Canada", "China", "France", "Germany", "India",
      "Japan", "Russia", "United Kingdom", "United States">>

----------------------------------------------------------------------------
(* Sequence helpers *)

Range(s) == {s[i] : i \in 1..Len(s)}

RECURSIVE SumSeq(_)
SumSeq(s) == IF s = <<>> THEN 0 ELSE Head(s) + SumSeq(Tail(s))

Column(rows, col) == [i \in 1..Len(rows) |-> rows[i][col]]

Min(S) == CHOOSE x \in S : \A y \in S : x <= y
Max(S) == CHOOSE x \in S : \A y \in S : x >= y

RECURSIVE GCD(_, _)
GCD(a, b) == IF b = 0 THEN a ELSE GCD(b, a % b)

RECURSIVE Pow(_, _)
Pow(b, e) == IF e = 0 THEN 1 ELSE b * Pow(b, e - 1)

\* pd.to_datetime(year, format='%Y') and Series.dt.year
ToDatetime(y) == <<y, 1, 1>>
DtYear(d) == d[1]
DtLeq(a, b) ==
    \/ a[1] < b[1]
    \/ a[1] = b[1] /\ a[2] < b[2]
    \/ a[1] = b[1] /\ a[2] = b[2] /\ a[3] <= b[3]
DtMax(S) == CHOOSE d \in S : \A e \in S : DtLeq(e, d)

\* sorted(set of country names)
RECURSIVE SortedNames(_, _)
SortedNames(S, i) ==
    IF i > Len(Alphabet) THEN <<>>
    ELSE (IF Alphabet[i] \in S THEN <<Alphabet[i]>> ELSE <<>>)
         \o SortedNames(S, i + 1)

\* sorted(years, reverse=True)
RECURSIVE SortedDesc(_)
SortedDesc(S) ==
    IF S = {} THEN <<>> ELSE <<Max(S)>> \o SortedDesc(S \ {Max(S)})

Prefix(s, n) == SubSeq(s, 1, IF n < Len(s) THEN n ELSE Len(s))

----------------------------------------------------------------------------
(* Rows and frames.  A frame is a sequence of rows; `index` is the pandas  *)
(* row label, which filtering and sorting carry along.                     *)

Profile(on) == [c \in SourceCols |-> IF c \in on THEN 1 ELSE 0]

MkRow(idx, c, y, p, s) ==
    [index |-> idx, country |-> c, year |-> y,
     primary_energy_consumption |-> p,
     coal_consumption |-> s["coal_consumption"],
     gas_consumption |-> s["gas_consumption"],
     oil_consumption |-> s["oil_consumption"],
     nuclear_consumption |-> s["nuclear_consumption"],
     hydro_consumption |-> s["hydro_consumption"],
     wind_consumption |-> s["wind_consumption"],
     solar_consumption |-> s["solar_consumption"],
     other_renewable_consumption |-> s["other_renewable_consumption"]]

Reindex(rows) == [i \in 1..Len(rows) |-> [rows[i] EXCEPT !.index = i - 1]]

FrameColumns ==
    {"index", "country", "year"} \cup energy_columns

----------------------------------------------------------------------------
(* load_energy_data *)

\* df[col] = df[col].fillna(0)
FillNa(v) == IF v = NaN THEN 0 ELSE v

CleanRow(r) ==
    [col \in DOMAIN r |->
        IF col = "year" THEN ToDatetime(r[col])
        ELSE IF col \in energy_columns THEN FillNa(r[col])
        ELSE r[col]]

\* the body of load_energy_data: [is_none, df, elements]
LoadEnergyData(f) ==
    IF f.status = "not_found"
    THEN [is_none |-> TRUE, df |-> <<>>,
          elements |-> <<"error:Dataset not found", "markdown:How to get the dataset">>]
    ELSE IF f.status = "parse_error"
    THEN [is_none |-> TRUE, df |-> <<>>, elements |-> <<"error:Error loading data">>]
    ELSE LET read == Reindex(f.rows)
             kept == SelectSeq(read, LAMBDA r : r.country # NoCountry)
         IN  [is_none |-> FALSE,
              df |-> [i \in 1..Len(kept) |-> CleanRow(kept[i])],
              elements |-> <<>>]

\* @st.cache_data: the body runs on a miss; on a hit the stored value is
\* returned (as a copy) and the elements the body rendered are replayed.
CachedLoad(c, f) ==
    IF c.filled THEN c
    ELSE LET r == LoadEnergyData(f)
         IN  [filled |-> TRUE, is_none |-> r.is_none, df |-> r.df,
              elements |-> r.elements]

EmptyCache == [filled |-> FALSE, is_none |-> TRUE, df |-> <<>>, elements |-> <<>>]

----------------------------------------------------------------------------
(* create_sample_data: 10 countries x range(2000, 2023), every value       *)
(* floored at 0.  The values come from a generator seeded with 42; the     *)
(* model keeps them positive and the same on every call.                   *)

SampleCountries ==
    <<"United States", "China", "India", "Germany", "Japan", "United Kingdom",
      "France", "Brazil", "Canada", "Russia">>

SampleYears == [i \in 1..(SampleLastYear - SampleFirstYear + 1) |-> SampleFirstYear + i - 1]

SampleConsumption(ci, i) == 50 + 40 * ci + (ci - 3) * i

SampleRow(ci, i) ==
    LET consumption == SampleConsumption(ci, i)
    IN  [index |-> (ci - 1) * Len(SampleYears) + i,
         country |-> SampleCountries[ci],
         year |-> ToDatetime(SampleYears[i + 1]),
         primary_energy_consumption |-> consumption,
         coal_consumption |-> (consumption * 30) \div 100 + 1,
         gas_consumption |-> (consumption * 25) \div 100 + 1,
         oil_consumption |-> (consumption * 30) \div 100 + 1,
         nuclear_consumption |-> (consumption * 10) \div 100 + 1,
         hydro_consumption |-> (consumption * 5) \div 100 + 1,
         wind_consumption |-> (consumption * 3) \div 100 + 1,
         solar_consumption |-> (consumption * 2) \div 100 + 1,
         other_renewable_consumption |-> (consumption * 2) \div 100 + 1]

CreateSampleData ==
    [k \in 1..(Len(SampleCountries) * Len(SampleYears)) |->
        SampleRow((k - 1) \div Len(SampleYears) + 1, (k - 1) % Len(SampleYears))]

----------------------------------------------------------------------------
(* calculate_energy_metrics *)

ColumnsSum(rows, cols) ==
    SumSeq([i \in 1..Len(cols) |-> SumSeq(Column(rows, cols[i]))])

LatestData(frame) ==
    LET latest_year == DtMax(Range(Column(frame, "year")))
    IN  SelectSeq(frame, LAMBDA r : r.year = latest_year)

\* (renewable_total / (renewable_total + fossil_total)) * 100 with no guard
RenewableShare(renewable_total, fossil_total) ==
    [num |-> renewable_total * 100, den |-> renewable_total + fossil_total]

Zero == [num |-> 0, den |-> 1]

UnguardedEnergyMetrics(frame) ==
    LET latest_data == LatestData(frame)
        total_consumption == SumSeq(Column(latest_data, "primary_energy_consumption"))
    IN  [total_consumption |-> total_consumption,
         avg_consumption |-> [num |-> total_consumption, den |-> Len(latest_data)],
         renewable_percentage |->
             RenewableShare(ColumnsSum(latest_data, renewable_cols),
                            ColumnsSum(latest_data, fossil_cols)),
         countries_count |-> Len(latest_data)]

CalculateEnergyMetrics(frame) ==
    LET latest_data == LatestData(frame)
        total_consumption == SumSeq(Column(latest_data, "primary_energy_consumption"))
        renewable_total == ColumnsSum(latest_data, renewable_cols)
        fossil_total == ColumnsSum(latest_data, fossil_cols)
    IN  [total_consumption |-> total_consumption,
         avg_consumption |-> [num |-> total_consumption, den |-> Len(latest_data)],
         renewable_percentage |->
             IF renewable_total + fossil_total > 0
             THEN RenewableShare(renewable_total, fossil_total)
             ELSE Zero,
         countries_count |-> Len(latest_data)]

----------------------------------------------------------------------------
(* create_energy_mix_chart *)

NoFig == [is_none |-> TRUE, names |-> <<>>, values |-> <<>>]

\* the energy_sources dict of a row, as a list of (name, value) pairs
EnergySources(row) ==
    [i \in 1..Len(MixSources) |-> <<MixSources[i][1], row[MixSources[i][2]]>>]

\* {k: v for k, v in energy_sources.items() if v > 0}
MixOf(row) ==
    SelectSeq(EnergySources(row), LAMBDA kv : kv[2] > 0)

EnergyMixKeepingZeros(frame, selected_country, selected_year) ==
    LET country_data ==
            SelectSeq(frame, LAMBDA r : r.country = selected_country
                                        /\ DtYear(r.year) = selected_year)
    IN  IF country_data = <<>> THEN NoFig
        ELSE LET energy_sources == EnergySources(country_data[1])
             IN  IF energy_sources = <<>> THEN NoFig
                 ELSE [is_none |-> FALSE,
                       names |-> [i \in 1..Len(energy_sources) |-> energy_sources[i][1]],
                       values |-> [i \in 1..Len(energy_sources) |-> energy_sources[i][2]]]

CreateEnergyMixChart(frame, selected_country, selected_year) ==
    LET country_data ==
            SelectSeq(frame, LAMBDA r : r.country = selected_country
                                        /\ DtYear(r.year) = selected_year)
    IN  IF country_data = <<>> THEN NoFig
        ELSE LET energy_sources == MixOf(country_data[1])
             IN  IF energy_sources = <<>> THEN NoFig
                 ELSE [is_none |-> FALSE,
                       names |-> [i \in 1..Len(energy_sources) |-> energy_sources[i][1]],
                       values |-> [i \in 1..Len(energy_sources) |-> energy_sources[i][2]]]

----------------------------------------------------------------------------
(* create_top_consumers_chart *)

\* place r after every row whose value is >= its own (a stable descending sort)
RECURSIVE InsertDesc(_, _, _)
InsertDesc(r, sorted, col) ==
    IF sorted = <<>> THEN <<r>>
    ELSE IF Head(sorted)[col] >= r[col]
         THEN <<Head(sorted)>> \o InsertDesc(r, Tail(sorted), col)
         ELSE <<r>> \o sorted

RECURSIVE SortDesc(_, _)
SortDesc(rows, col) ==
    IF rows = <<>> THEN <<>>
    ELSE InsertDesc(rows[Len(rows)], SortDesc(SubSeq(rows, 1, Len(rows) - 1), col), col)

\* as InsertDesc, but a tie goes in front: later rows win ties
RECURSIVE InsertDescLast(_, _, _)
InsertDescLast(r, sorted, col) ==
    IF sorted = <<>> THEN <<r>>
    ELSE IF Head(sorted)[col] > r[col]
         THEN <<Head(sorted)>> \o InsertDescLast(r, Tail(sorted), col)
         ELSE <<r>> \o sorted

RECURSIVE SortDescLast(_, _)
SortDescLast(rows, col) ==
    IF rows = <<>> THEN <<>>
    ELSE InsertDescLast(rows[Len(rows)],
                        SortDescLast(SubSeq(rows, 1, Len(rows) - 1), col), col)

NLargestKeepLast(rows, n, col) ==
    IF n <= 0 THEN <<>> ELSE Prefix(SortDescLast(rows, col), n)

\* DataFrame.nlargest(n, col), keep='first': the n rows with the largest
\* values, in descending order, ties in the order of the frame
NLargest(rows, n, col) ==
    IF n <= 0 THEN <<>> ELSE Prefix(SortDesc(rows, col), n)

CreateTopConsumersChart(frame, year, top_n) ==
    NLargest(SelectSeq(frame, LAMBDA r : DtYear(r.year) = year),
             top_n, "primary_energy_consumption")

----------------------------------------------------------------------------
(* create_consumption_trends, create_renewable_growth_chart *)

CreateConsumptionTrends(frame, selected_countries) ==
    SelectSeq(frame, LAMBDA r : r.country \in Range(selected_countries))

WithTotalRenewable(r) ==
    [col \in DOMAIN r \cup {"total_renewable"} |->
        IF col = "total_renewable"
        THEN SumSeq([i \in 1..Len(renewable_cols) |-> FillNa(r[renewable_cols[i]])])
        ELSE r[col]]

\* the filtered rows are copied before the column is added
CreateRenewableGrowthChart(frame, selected_countries) ==
    LET filtered_df == SelectSeq(frame, LAMBDA r : r.country \in Range(selected_countries))
    IN  [i \in 1..Len(filtered_df) |-> WithTotalRenewable(filtered_df[i])]

----------------------------------------------------------------------------
(* main: sidebar controls *)

AvailableCountries(frame) == SortedNames(Range(Column(frame, "country")), 1)

DefaultSelection(available_countries) ==
    IF Len(available_countries) >= DefaultCountries
    THEN SubSeq(available_countries, 1, DefaultCountries)
    ELSE available_countries

YearsOf(frame) == {DtYear(frame[i].year) : i \in 1..Len(frame)}

MinYear(frame) == Min(YearsOf(frame))
MaxYear(frame) == Max(YearsOf(frame))

\* the slider's default value: (max_year - 10, max_year)
DefaultYearRange(min_year, max_year) == <<max_year - DefaultSpan, max_year>>

\* st.sidebar.slider(label, min_value, max_value, value): the widget widens
\* its bounds to hold the default value
Slider(min_value, max_value, value) ==
    [min_value |-> min_value, max_value |-> max_value, value |-> value,
     lo |-> IF value[1] < min_value THEN value[1] ELSE min_value,
     hi |-> IF value[2] > max_value THEN value[2] ELSE max_value]

\* sorted(df['year'].dt.year.unique(), reverse=True)
YearOptions(frame) == SortedDesc(YearsOf(frame))

\* the values of the widgets on the first run of a session
DefaultWidgets(frame) ==
    LET available_countries == AvailableCountries(frame)
        selected == DefaultSelection(available_countries)
    IN  [selected_countries |-> selected,
         selected_year_range |-> DefaultYearRange(MinYear(frame), MaxYear(frame)),
         mix_country |-> IF selected = <<>> THEN NoCountry ELSE selected[1],
         mix_year |-> YearOptions(frame)[1],
         top_year |-> YearOptions(frame)[1]]

----------------------------------------------------------------------------
(* main: the filter *)

\* `df = df[...]`: the filter result bound to df itself
FilterDataRebindingDf(frame, selected_countries, selected_year_range) ==
    LET filtered ==
            SelectSeq(frame, LAMBDA r :
                /\ r.country \in Range(selected_countries)
                /\ DtYear(r.year) >= selected_year_range[1]
                /\ DtYear(r.year) <= selected_year_range[2])
    IN  [df |-> filtered, filtered_df |-> filtered]

\* filtered_df = df[...]: a new frame; df is left as it is
FilterData(frame, selected_countries, selected_year_range) ==
    [df |-> frame,
     filtered_df |->
         SelectSeq(frame, LAMBDA r :
             /\ r.country \in Range(selected_countries)
             /\ DtYear(r.year) >= selected_year_range[1]
             /\ DtYear(r.year) <= selected_year_range[2])]

----------------------------------------------------------------------------
(* main: the insights *)

\* filtered_df.loc[filtered_df['primary_energy_consumption'].idxmax()]
TopConsumer(filtered_df) ==
    LET m == Max(Range(Column(filtered_df, "primary_energy_consumption")))
        i == Min({k \in 1..Len(filtered_df) : filtered_df[k].primary_energy_consumption = m})
    IN  [country |-> filtered_df[i].country,
         primary_energy_consumption |-> filtered_df[i].primary_energy_consumption,
         year |-> DtYear(filtered_df[i].year)]

\* ((last_year / first_year) ** (1/len(country_data)) - 1) * 100, kept exact
Growth(last_year, first_year, n) == [last |-> last_year, first |-> first_year, n |-> n]

\* a < b for two growth rates: (la/fa)^(1/na) < (lb/fb)^(1/nb)
GrowthLess(a, b) ==
    LET g == GCD(a.n, b.n)
        ea == b.n \div g
        eb == a.n \div g
    IN  Pow(a.last, ea) * Pow(b.first, eb) < Pow(b.last, eb) * Pow(a.first, ea)

\* the (first row, last row) of country_data.sort_values('year'): rows of one
\* year may come out of the sort in any order
FirstLastChoices(country_data) ==
    LET ys == YearsOf(country_data)
    IN  {<<i, j>> \in (1..Len(country_data)) \X (1..Len(country_data)) :
            /\ i # j
            /\ DtYear(country_data[i].year) = Min(ys)
            /\ DtYear(country_data[j].year) = Max(ys)}

\* the entries one country can add to growth_rates: <<>> or <<(country, rate)>>
CountryGrowthUnguarded(filtered_df, country) ==
    LET country_data == SelectSeq(filtered_df, LAMBDA r : r.country = country)
    IN  IF Len(country_data) >= 1
        THEN {<<[country |-> country,
                 growth |-> Growth(country_data[Len(country_data)].primary_energy_consumption,
                                   country_data[1].primary_energy_consumption,
                                   Len(country_data))]>>}
        ELSE {<<>>}

CountryGrowth(filtered_df, country) ==
    LET country_data == SelectSeq(filtered_df, LAMBDA r : r.country = country)
    IN  IF Len(country_data) >= 2
        THEN {LET first_year == country_data[fl[1]].primary_energy_consumption
                  last_year == country_data[fl[2]].primary_energy_consumption
              IN  IF first_year > 0
                  THEN <<[country |-> country,
                          growth |-> Growth(last_year, first_year, Len(country_data))]>>
                  ELSE <<>>
              : fl \in FirstLastChoices(country_data)}
        ELSE {<<>>}

\* every value the loop over selected_countries can leave in growth_rates
RECURSIVE GrowthRateChoices(_, _)
GrowthRateChoices(filtered_df, selected_countries) ==
    IF selected_countries = <<>> THEN {<<>>}
    ELSE {e \o rest : e \in CountryGrowth(filtered_df, Head(selected_countries)),
                      rest \in GrowthRateChoices(filtered_df, Tail(selected_countries))}

\* max(growth_rates, key=lambda x: x[1]): the first entry no other exceeds
FastestGrowing(growth_rates) ==
    LET i == Min({k \in 1..Len(growth_rates) :
                    \A j \in 1..Len(growth_rates) :
                        ~GrowthLess(growth_rates[k].growth, growth_rates[j].growth)})
    IN  growth_rates[i]

\* a <  b for two fractions with positive denominators
FracLess(a, b) == a.num * b.den < b.num * a.den

RECURSIVE RenewablePercentages(_, _)
RenewablePercentages(latest_data_filtered, selected_countries) ==
    IF selected_countries = <<>> THEN <<>>
    ELSE LET country == Head(selected_countries)
             country_data == SelectSeq(latest_data_filtered, LAMBDA r : r.country = country)
             renewable_total == ColumnsSum(<<country_data[1]>>, renewable_cols)
             fossil_total == ColumnsSum(<<country_data[1]>>, fossil_cols)
         IN  (IF country_data # <<>> /\ renewable_total + fossil_total > 0
              THEN <<[country |-> country,
                      renewable_pct |-> RenewableShare(renewable_total, fossil_total)]>>
              ELSE <<>>)
             \o RenewablePercentages(latest_data_filtered, Tail(selected_countries))

\* max(renewable_percentages, key=lambda x: x[1])
MaxRenewable(renewable_percentages) ==
    LET i == Min({k \in 1..Len(renewable_percentages) :
                    \A j \in 1..Len(renewable_percentages) :
                        ~FracLess(renewable_percentages[k].renewable_pct,
                                  renewable_percentages[j].renewable_pct)})
    IN  renewable_percentages[i]

\* "Most Renewable" computed from the year-range filtered rows
MostRenewableOfFiltered(frame, filtered_df, selected_countries) ==
    LET renewable_percentages ==
            RenewablePercentages(LatestData(filtered_df), selected_countries)
    IN  IF renewable_percentages = <<>> THEN <<>>
        ELSE <<MaxRenewable(renewable_percentages)>>

\* "Most Renewable": from the latest year of the whole table; <<>> when
\* nothing is written
MostRenewable(frame, filtered_df, selected_countries) ==
    LET renewable_percentages ==
            RenewablePercentages(LatestData(frame), selected_countries)
    IN  IF renewable_percentages = <<>> THEN <<>>
        ELSE <<MaxRenewable(renewable_percentages)>>

display_columns ==
    {"country", "primary_energy_consumption", "coal_consumption", "gas_consumption",
     "oil_consumption", "nuclear_consumption", "hydro_consumption", "wind_consumption",
     "solar_consumption"}

\* latest_data[latest_data['country'].isin(selected_countries)][columns]
TableData(frame, selected_countries) ==
    LET rows == SelectSeq(LatestData(frame),
                          LAMBDA r : r.country \in Range(selected_countries))
    IN  [i \in 1..Len(rows) |->
            [col \in display_columns \cup {"index"} |-> rows[i][col]]]

----------------------------------------------------------------------------
(* Input tables *)

Countries == {"A", "B"}

\* which sources a row of the input tables consumes
ProfileSupports ==
    { {"coal_consumption"},
      {"nuclear_consumption"},
      {"gas_consumption", "oil_consumption", "hydro_consumption"},
      {"wind_consumption", "solar_consumption", "other_renewable_consumption"} }

\* (consumption, sources) of an input row
Variants ==
    {<<p, Profile({})>> : p \in 0..MaxVal}
        \cup {<<1, Profile(on)>> : on \in ProfileSupports}

SeqsUpTo(S, n) == UNION {[1..k -> S] : k \in 1..n}

FnYears == {2020, 2021}

FnRows ==
    {MkRow(0, c, ToDatetime(y), v[1], v[2]) : c \in Countries, y \in FnYears, v \in Variants}

FnTables == {Reindex(t) : t \in SeqsUpTo(FnRows, MaxFnRows)}

NoCall == [op |-> "none", country |-> NoCountry, year |-> 0, top_n |-> 0]
NoRet == [op |-> "none"]
NoWidgets ==
    [selected_countries |-> <<>>, selected_year_range |-> <<0, 0>>,
     mix_country |-> NoCountry, mix_year |-> 0, top_year |-> 0]
NoOut == [ran |-> FALSE]
NoFile == [status |-> "not_found", rows |-> <<>>]

----------------------------------------------------------------------------
(* Function-level specification: one derivation function applied once to  *)
(* a table of FnTables.                                                    *)

InitFn ==
    /\ df \in FnTables
    /\ file = NoFile
    /\ cache = EmptyCache
    /\ widgets = NoWidgets
    /\ out = NoOut
    /\ runs = 0
    /\ call = NoCall
    /\ ret = NoRet

FnFrame == UNCHANGED <<file, cache, df, widgets, out, runs>>

CallMetrics ==
    /\ call = NoCall
    /\ call' = [NoCall EXCEPT !.op = "calculate_energy_metrics"]
    /\ ret' = [op |-> "calculate_energy_metrics", metrics |-> CalculateEnergyMetrics(df)]
    /\ FnFrame

CallEnergyMix(c, y) ==
    /\ call = NoCall
    /\ call' = [NoCall EXCEPT !.op = "create_energy_mix_chart", !.country = c, !.year = y]
    /\ ret' = [op |-> "create_energy_mix_chart", fig |-> CreateEnergyMixChart(df, c, y)]
    /\ FnFrame

CallTopConsumers(y, n) ==
    /\ call = NoCall
    /\ call' = [NoCall EXCEPT !.op = "create_top_consumers_chart", !.year = y, !.top_n = n]
    /\ ret' = [op |-> "create_top_consumers_chart",
               year_data |-> CreateTopConsumersChart(df, y, n)]
    /\ FnFrame

NextFn ==
    \/ CallMetrics
    \/ \E c \in Countries, y \in FnYears : CallEnergyMix(c, y)
    \/ \E y \in FnYears, n \in 0..MaxN : CallTopConsumers(y, n)

SpecFn == InitFn /\ [][NextFn]_vars

----------------------------------------------------------------------------
(* Claims about the derivation functions (checked under SpecFn) *)

\* the rows of table t at its maximum year, as positions
LatestPos(t) ==
    {i \in 1..Len(t) : \A j \in 1..Len(t) : DtYear(t[j].year) <= DtYear(t[i].year)}

PosSum(t, P, cols) ==
    LET RECURSIVE S(_)
        S(Q) == IF Q = {} THEN 0
                ELSE LET i == CHOOSE x \in Q : TRUE
                     IN  SumSeq([k \in 1..Len(cols) |-> t[i][cols[k]]]) + S(Q \ {i})
    IN  S(P)

MetricsCalled == call.op = "calculate_energy_metrics"

\* C1: on a table of non-negative values renewable_percentage is a defined
\* number in [0, 100], and it is exactly 0 when the latest year's renewable
\* and fossil sums are both 0 (no division by zero).
C1_RenewablePercentageInRange ==
    MetricsCalled =>
        LET pct == ret.metrics.renewable_percentage
            r == PosSum(df, LatestPos(df), renewable_cols)
            f == PosSum(df, LatestPos(df), fossil_cols)
        IN  /\ pct.den > 0
            /\ 0 <= pct.num
            /\ pct.num <= 100 * pct.den
            /\ (r = 0 /\ f = 0) => pct.num = 0
            /\ (r + f > 0) => pct.num * (r + f) = 100 * r * pct.den

C1_Witness ==
    /\ MetricsCalled
    /\ PosSum(df, LatestPos(df), renewable_cols) = 0
    /\ PosSum(df, LatestPos(df), fossil_cols) = 0
    /\ \E i \in 1..Len(df) : df[i].nuclear_consumption > 0
    /\ ret.metrics.renewable_percentage.num = 0

\* C2: countries_count is the number of distinct countries that have a row
\* at the maximum year of the table, also when a (country, year) pair
\* occurs more than once.
C2_CountriesCountIsDistinct ==
    MetricsCalled =>
        ret.metrics.countries_count
            = Cardinality({df[i].country : i \in LatestPos(df)})

\* what the code returns instead: the number of rows at the maximum year
C2_CountsRows ==
    MetricsCalled => ret.metrics.countries_count = Cardinality(LatestPos(df))

TopCalled == call.op = "create_top_consumers_chart"

YearPos(t, y) == {i \in 1..Len(t) : DtYear(t[i].year) = y}

\* C5: the top-N selection has exactly min(N, rows at that year) rows, all
\* rows of the table at that year, no consumption exceeding the previous
\* one, and rows of equal consumption in their original table order.
C5_TopNSelection ==
    TopCalled =>
        LET res == ret.year_data
            at == YearPos(df, call.year)
            n == Cardinality(at)
        IN  /\ Len(res) = (IF call.top_n < n THEN call.top_n ELSE n)
            /\ \A i \in 1..Len(res) :
                   /\ DtYear(res[i].year) = call.year
                   /\ \E k \in at : df[k] = res[i]
            /\ \A i, j \in 1..Len(res) :
                   i < j =>
                       /\ res[i].primary_energy_consumption
                              >= res[j].primary_energy_consumption
                       /\ res[i].index # res[j].index
                       /\ (res[i].primary_energy_consumption
                              = res[j].primary_energy_consumption
                           => res[i].index < res[j].index)
            \* a row left out is no larger than any row kept, and if equal
            \* it comes later in the table
            /\ \A k \in at :
                   (\A i \in 1..Len(res) : res[i] # df[k]) =>
                       \A i \in 1..Len(res) :
                           \/ res[i].primary_energy_consumption
                                  > df[k].primary_energy_consumption
                           \/ /\ res[i].primary_energy_consumption
                                     = df[k].primary_energy_consumption
                              /\ res[i].index < df[k].index

C5_Witness ==
    /\ TopCalled
    /\ call.top_n >= 1
    /\ call.top_n < Cardinality(YearPos(df, call.year))
    /\ Len(ret.year_data) = call.top_n
    /\ \E i, j \in YearPos(df, call.year) :
           /\ i < j
           /\ df[i].primary_energy_consumption = df[j].primary_energy_consumption
           /\ \E k \in 1..Len(ret.year_data) : ret.year_data[k] = df[i]
           /\ \A k \in 1..Len(ret.year_data) : ret.year_data[k] # df[j]

MixCalled == call.op = "create_energy_mix_chart"

PairPos(t, c, y) == {i \in 1..Len(t) : t[i].country = c /\ DtYear(t[i].year) = y}

\* C6: the energy-mix mapping never holds a zero-valued source, and the
\* result is None exactly when the (country, year) pair has no row or every
\* source of its row (the first one of the pair) is zero.
C6_MixHasNoZero ==
    MixCalled =>
        LET fig == ret.fig
            at == PairPos(df, call.country, call.year)
        IN  /\ \A i \in 1..Len(fig.values) : fig.values[i] # 0
            /\ Len(fig.names) = Len(fig.values)
            /\ fig.is_none <=>
                   \/ at = {}
                   \/ \A col \in SourceCols : df[Min(at)][col] = 0
            /\ ~fig.is_none =>
                   \A k \in 1..Len(MixSources) :
                       df[Min(at)][MixSources[k][2]] # 0 =>
                           \E i \in 1..Len(fig.names) :
                               /\ fig.names[i] = MixSources[k][1]
                               /\ fig.values[i] = df[Min(at)][MixSources[k][2]]

C6_Witness ==
    /\ MixCalled
    /\ ~ret.fig.is_none
    /\ PairPos(df, call.country, call.year) # {}
    /\ \E col \in SourceCols : df[Min(PairPos(df, call.country, call.year))][col] = 0
    /\ Len(ret.fig.values) = 3

C6_WitnessNone ==
    /\ MixCalled
    /\ ret.fig.is_none
    /\ PairPos(df, call.country, call.year) # {}

----------------------------------------------------------------------------
(* main *)

\* df = load_energy_data(); if df is None: st.info(...); df = create_sample_data()
Setup(c, f) ==
    LET loaded == CachedLoad(c, f)
    IN  [cache |-> loaded,
         df |-> IF loaded.is_none THEN CreateSampleData ELSE loaded.df,
         elements |->
             loaded.elements
                 \o (IF loaded.is_none THEN <<"info:Using sample data">> ELSE <<>>)]

\* the run that never tests `if not selected_countries`
EmptySelectionUnguarded(selected_countries) == FALSE

\* if not selected_countries: st.warning(...); return
EmptySelection(selected_countries) == selected_countries = <<>>

\* One run of main() with the widgets at w: the set of its possible
\* outcomes [cache, df, out] (one per order the growth sort may leave
\* rows of the same year in).
MainBody(c, f, w) ==
    LET s == Setup(c, f)
        min_year == MinYear(s.df)
        max_year == MaxYear(s.df)
        slider == Slider(min_year, max_year, DefaultYearRange(min_year, max_year))
        selected_countries == w.selected_countries
        fd == FilterData(s.df, selected_countries, w.selected_year_range)
        frame == fd.df
        filtered_df == fd.filtered_df
    IN  IF EmptySelection(selected_countries)
        THEN {[cache |-> s.cache, df |-> frame,
               out |-> [ran |-> TRUE,
                        elements |-> s.elements
                            \o <<"warning:Please select at least one country">>,
                        computed |-> <<"filter">>,
                        slider |-> slider, filtered_df |-> filtered_df,
                        metrics |-> <<>>, trends |-> <<>>, mix_fig |-> <<>>,
                        top_consumers |-> <<>>, renewable_growth |-> <<>>,
                        table_data |-> <<>>, top_consumer |-> <<>>,
                        growth_rates |-> <<>>, fastest_growing |-> <<>>,
                        most_renewable |-> <<>>]]}
        ELSE LET metrics == CalculateEnergyMetrics(frame)
                 trends_fig == CreateConsumptionTrends(filtered_df, selected_countries)
                 mix_fig == CreateEnergyMixChart(frame, w.mix_country, w.mix_year)
                 top_consumers_fig == CreateTopConsumersChart(frame, w.top_year, TopNDefault)
                 renewable_fig == CreateRenewableGrowthChart(filtered_df, selected_countries)
                 table_data == TableData(frame, selected_countries)
                 insights == filtered_df # <<>>
                 most_renewable ==
                     IF insights THEN MostRenewable(frame, filtered_df, selected_countries)
                     ELSE <<>>
             IN  {[cache |-> s.cache, df |-> frame,
                   out |-> [ran |-> TRUE,
                        elements |-> s.elements
                            \o <<"header:Global Energy Overview", "metric:overview",
                                 "header:Energy Consumption Analysis",
                                 "plotly_chart:trends">>
                            \o (IF mix_fig.is_none
                                THEN <<"info:No energy mix data available">>
                                ELSE <<"plotly_chart:energy_mix">>)
                            \o <<"plotly_chart:top_consumers",
                                 "plotly_chart:renewable_growth",
                                 "header:Detailed Data", "dataframe:latest",
                                 "header:Key Insights">>
                            \o (IF insights
                                THEN <<"subheader:Highest Consumer", "write:top_consumer",
                                       "subheader:Fastest Growing">>
                                     \o (IF growth_rates # <<>>
                                         THEN <<"write:fastest_growing">> ELSE <<>>)
                                     \o <<"subheader:Most Renewable">>
                                     \o (IF most_renewable # <<>>
                                         THEN <<"write:most_renewable">> ELSE <<>>)
                                ELSE <<>>)
                            \o <<"caption:Data source">>,
                        computed |-> <<"filter", "metrics", "trends", "energy_mix",
                                       "top_consumers", "renewable_growth", "table">>
                                     \o (IF insights THEN <<"insights">> ELSE <<>>),
                        slider |-> slider, filtered_df |-> filtered_df,
                        metrics |-> <<metrics>>, trends |-> trends_fig,
                        mix_fig |-> <<mix_fig>>,
                        top_consumers |-> top_consumers_fig,
                        renewable_growth |-> renewable_fig,
                        table_data |-> table_data,
                        top_consumer |->
                            IF insights THEN <<TopConsumer(filtered_df)>> ELSE <<>>,
                        growth_rates |-> growth_rates,
                        fastest_growing |->
                            IF growth_rates # <<>>
                            THEN <<FastestGrowing(growth_rates)>> ELSE <<>>,
                        most_renewable |-> most_renewable]]
                  : growth_rates \in
                        IF insights THEN GrowthRateChoices(filtered_df, selected_countries)
                        ELSE {<<>>}}

\* the run that stops at `if df is None`, with no fallback table
MainWithoutFallback(c, f, w) ==
    LET s == Setup(c, f)
    IN  IF ~s.cache.is_none THEN MainBody(c, f, w)
        ELSE
        {[cache |-> s.cache, df |-> s.df,
          out |-> [ran |-> TRUE, elements |-> s.cache.elements, computed |-> <<>>,
                   slider |-> Slider(0, 0, <<0, 0>>), filtered_df |-> <<>>,
                   metrics |-> <<>>, trends |-> <<>>, mix_fig |-> <<>>,
                   top_consumers |-> <<>>, renewable_growth |-> <<>>,
                   table_data |-> <<>>, top_consumer |-> <<>>,
                   growth_rates |-> <<>>, fastest_growing |-> <<>>,
                   most_renewable |-> <<>>]]}

Main(c, f, w) == MainBody(c, f, w)

----------------------------------------------------------------------------
(* The files a session can find on disk *)

MainYears == {2011, 2021}

\* (consumption, sources) of a row of the file
FileVariants ==
    {<<0, Profile({})>>,
     <<1, Profile({"coal_consumption"})>>,
     <<2, Profile({"wind_consumption", "solar_consumption"})>>}

BlankRows ==
    {MkRow(0, NoCountry, 2021, 1, Profile({})),
     MkRow(0, "A", 2021, NaN, [c \in SourceCols |-> NaN])}

FileRows ==
    {MkRow(0, c, y, v[1], v[2]) : c \in Countries, y \in MainYears, v \in FileVariants}
        \cup BlankRows

\* section 8 of the specification: A = [100, 200], B = [50, 50] over 2020-2021
GrowthScenario ==
    <<MkRow(0, "A", 2020, 100, Profile({"coal_consumption"})),
      MkRow(0, "A", 2021, 200, Profile({"coal_consumption", "solar_consumption"})),
      MkRow(0, "B", 2020, 50, Profile({"coal_consumption"})),
      MkRow(0, "B", 2021, 50, Profile({"coal_consumption"}))>>

\* the same two countries with B the faster one
GrowthScenarioB ==
    <<MkRow(0, "A", 2020, 100, Profile({"coal_consumption"})),
      MkRow(0, "A", 2021, 100, Profile({"coal_consumption"})),
      MkRow(0, "B", 2020, 50, Profile({"coal_consumption"})),
      MkRow(0, "B", 2021, 150, Profile({"solar_consumption"}))>>

\* a file needs one row with a country: main cannot take the years of an
\* empty table
FileTables ==
    {t \in SeqsUpTo(FileRows, MaxRows) : \E i \in 1..Len(t) : t[i].country # NoCountry}
        \cup {GrowthScenario, GrowthScenarioB}

Files ==
    {[status |-> "not_found", rows |-> <<>>], [status |-> "parse_error", rows |-> <<>>]}
        \cup {[status |-> "ok", rows |-> t] : t \in FileTables}

----------------------------------------------------------------------------
(* What the user can set the widgets to *)

RECURSIVE Arrangements(_)
\* the lists without repetition over S
Arrangements(S) ==
    {<<>>} \cup UNION {{<<x>> \o a : a \in Arrangements(S \ {x})} : x \in S}

\* multiselect: any list over the options (the model: over the first MaxPick)
Selections(frame) ==
    Arrangements(Range(Prefix(AvailableCountries(frame), MaxPick)))

\* the years of the data the model moves a slider handle to: both ends and
\* the middle
DataStops(frame) ==
    {MinYear(frame), MaxYear(frame), (MinYear(frame) + MaxYear(frame)) \div 2}

\* the ranges the model sets the slider to: the lower handle may also stay
\* where the default put it
YearRanges(frame) ==
    {r \in (DataStops(frame)
              \cup {DefaultYearRange(MinYear(frame), MaxYear(frame))[1]})
           \X DataStops(frame) : r[1] <= r[2]}

\* the years the model picks in the two year selectboxes
PickableYears(frame) == YearsOf(frame) \cap DataStops(frame)

----------------------------------------------------------------------------
(* The session: the first run, then one run per interaction *)

Init ==
    /\ file \in Files
    /\ cache = EmptyCache
    /\ df = <<>>
    /\ widgets = NoWidgets
    /\ out = NoOut
    /\ runs = 0
    /\ call = NoCall
    /\ ret = NoRet

Rerun(w) ==
    /\ \E r \in Main(cache, file, w) :
           /\ cache' = r.cache
           /\ df' = r.df
           /\ out' = r.out
    /\ widgets' = w
    /\ runs' = runs + 1
    /\ UNCHANGED <<file, call, ret>>

FirstRun ==
    /\ runs = 0
    /\ Rerun(DefaultWidgets(Setup(cache, file).df))

CanInteract == runs >= 1 /\ runs <= MaxInteractions

SelectCountries ==
    /\ CanInteract
    /\ \E selected \in Selections(df) :
           /\ selected # widgets.selected_countries
           /\ Rerun([widgets EXCEPT
                       !.selected_countries = selected,
                       !.mix_country =
                           IF selected = <<>> THEN NoCountry
                           ELSE IF widgets.mix_country \in Range(selected)
                                THEN widgets.mix_country ELSE selected[1]])

MoveYearRange ==
    /\ CanInteract
    /\ \E range \in YearRanges(df) :
           /\ range # widgets.selected_year_range
           /\ Rerun([widgets EXCEPT !.selected_year_range = range])

\* the selectboxes exist only in a run that got past the empty-selection test
PickMixCountry ==
    /\ CanInteract
    /\ \E country \in Range(widgets.selected_countries) :
           /\ country # widgets.mix_country
           /\ Rerun([widgets EXCEPT !.mix_country = country])

PickMixYear ==
    /\ CanInteract
    /\ widgets.selected_countries # <<>>
    /\ \E year \in PickableYears(df) :
           /\ year # widgets.mix_year
           /\ Rerun([widgets EXCEPT !.mix_year = year])

PickTopYear ==
    /\ CanInteract
    /\ widgets.selected_countries # <<>>
    /\ \E year \in PickableYears(df) :
           /\ year # widgets.top_year
           /\ Rerun([widgets EXCEPT !.top_year = year])

Next ==
    \/ FirstRun
    \/ SelectCountries
    \/ MoveYearRange
    \/ PickMixCountry
    \/ PickMixYear
    \/ PickTopYear

Spec == Init /\ [][Next]_vars

----------------------------------------------------------------------------
(* Claims about a session (checked under Spec) *)

Rendered == Range(out.elements)

ChartElements ==
    {"plotly_chart:trends", "plotly_chart:energy_mix", "plotly_chart:top_consumers",
     "plotly_chart:renewable_growth"}

ParseErrorRun == out.ran /\ file.status = "parse_error"

\* C3 (as stated): after a parse error the error is shown as a message and
\* the run renders no chart.
C3_ParseErrorRendersNoChart ==
    ParseErrorRun =>
        /\ "error:Error loading data" \in Rendered
        /\ Rendered \cap ChartElements = {}

\* C3 (amended): after a parse error the error is shown as a message and the
\* run goes on with the synthetic sample table, announced by an info
\* message; with a country selected it renders the charts from that table.
C3_ParseErrorFallsBackToSample ==
    ParseErrorRun =>
        /\ "error:Error loading data" \in Rendered
        /\ "info:Using sample data" \in Rendered
        /\ df = CreateSampleData
        /\ widgets.selected_countries # <<>> =>
               /\ {"plotly_chart:trends", "plotly_chart:top_consumers",
                   "plotly_chart:renewable_growth"} \subseteq Rendered
               /\ \A i \in 1..Len(out.top_consumers) :
                      out.top_consumers[i].country \in Range(SampleCountries)

C3_Witness ==
    /\ ParseErrorRun
    /\ widgets.selected_countries # <<>>
    /\ "plotly_chart:trends" \in Rendered
    /\ Len(out.top_consumers) = Len(SampleCountries)

EmptySelectionRun == out.ran /\ widgets.selected_countries = <<>>

SelectWarning == "warning:Please select at least one country"

\* C4 (as stated): with no country selected the run prompts the user and
\* returns having computed nothing over the table, the filter included.
C4_EmptySelectionComputesNothing ==
    EmptySelectionRun =>
        /\ SelectWarning \in Rendered
        /\ out.computed = <<>>

\* C4 (amended): with no country selected the run computes the filter, whose
\* result is empty, prompts the user and returns with no metrics, no chart
\* derivation and no insight derivation.
C4_EmptySelectionOnlyFilters ==
    EmptySelectionRun =>
        /\ out.elements[Len(out.elements)] = SelectWarning
        /\ out.computed = <<"filter">>
        /\ out.filtered_df = <<>>
        /\ out.metrics = <<>> /\ out.mix_fig = <<>>
        /\ out.trends = <<>> /\ out.top_consumers = <<>> /\ out.renewable_growth = <<>>
        /\ out.top_consumer = <<>> /\ out.growth_rates = <<>>
        /\ out.fastest_growing = <<>> /\ out.most_renewable = <<>>
        /\ Rendered \cap ChartElements = {}

C4_Witness ==
    /\ EmptySelectionRun
    /\ SelectWarning \in Rendered
    /\ runs = 2
    /\ file.status = "ok"

\* the rows of the table of country c inside the selected year range
InRangePos(c) ==
    {i \in 1..Len(df) :
        /\ df[i].country = c
        /\ widgets.selected_year_range[1] <= DtYear(df[i].year)
        /\ DtYear(df[i].year) <= widgets.selected_year_range[2]}

\* C7: a selected country is in the growth ranking only if it has at least 2
\* rows inside the selected year range and its earliest in-range consumption
\* is > 0; the fastest growing country is one of the ranked countries and no
\* ranked country grows faster; nothing is reported when none is ranked; and
\* A = [100, 200], B = [50, 50] over 2020-2021 gives A.
C7_GrowthRanking ==
    out.ran =>
        /\ \A k \in 1..Len(out.growth_rates) :
               LET e == out.growth_rates[k]
                   at == InRangePos(e.country)
               IN  /\ e.country \in Range(widgets.selected_countries)
                   /\ Cardinality(at) >= 2
                   /\ e.growth.n = Cardinality(at)
                   /\ e.growth.first > 0
                   /\ \E i \in at :
                          /\ \A j \in at : DtYear(df[i].year) <= DtYear(df[j].year)
                          /\ df[i].primary_energy_consumption = e.growth.first
        /\ out.growth_rates # <<>> =>
               /\ Len(out.fastest_growing) = 1
               /\ \E k \in 1..Len(out.growth_rates) :
                      out.growth_rates[k] = out.fastest_growing[1]
               /\ \A k \in 1..Len(out.growth_rates) :
                      ~GrowthLess(out.fastest_growing[1].growth, out.growth_rates[k].growth)
        /\ out.growth_rates = <<>> =>
               /\ out.fastest_growing = <<>>
               /\ "write:fastest_growing" \notin Rendered
        /\ ( /\ file.rows = GrowthScenario
             /\ Range(widgets.selected_countries) = {"A", "B"}
             /\ widgets.selected_year_range[1] <= 2020
             /\ widgets.selected_year_range[2] >= 2021 )
               => /\ Len(out.fastest_growing) = 1
                  /\ out.fastest_growing[1].country = "A"

C7_Witness ==
    /\ out.ran
    /\ Len(out.growth_rates) = 2
    /\ GrowthLess(out.growth_rates[1].growth, out.growth_rates[2].growth)
    /\ out.fastest_growing = <<out.growth_rates[2]>>
    /\ out.fastest_growing[1].country = "A"

C7_WitnessUnranked ==
    /\ out.ran
    /\ out.filtered_df # <<>>
    /\ \E c \in Range(widgets.selected_countries) :
           /\ Cardinality(InRangePos(c)) >= 2
           /\ \A k \in 1..Len(out.growth_rates) : out.growth_rates[k].country # c

\* two consecutive runs over the same table that differ only in the year range
OnlyYearRangeDiffers ==
    /\ out.ran /\ out'.ran
    /\ df' = df
    /\ widgets.selected_countries # <<>>
    /\ widgets' = [widgets EXCEPT !.selected_year_range = widgets'.selected_year_range]
    /\ widgets'.selected_year_range # widgets.selected_year_range

\* C8 (as stated): "most renewable" does not depend on the year range: two
\* runs that differ only in the selected year range report the same
\* most-renewable country and share.
C8_MostRenewableIgnoresYearRange ==
    [][OnlyYearRangeDiffers => out'.most_renewable = out.most_renewable]_vars

\* C8 (amended): two runs that differ only in the selected year range report
\* the same most-renewable country and share provided the filter leaves at
\* least one row in both; a run whose filtered view is empty reports none.
C8_MostRenewableIgnoresNonEmptyYearRange ==
    [][ /\ (OnlyYearRangeDiffers /\ out.filtered_df # <<>> /\ out'.filtered_df # <<>>)
            => out'.most_renewable = out.most_renewable
        /\ (out'.ran /\ out'.filtered_df = <<>>) => out'.most_renewable = <<>> ]_vars

C8_Witness ==
    /\ out.ran
    /\ runs = 2
    /\ file.status = "ok"
    /\ widgets.selected_year_range
           # DefaultYearRange(MinYear(df), MaxYear(df))
    /\ out.filtered_df # <<>>
    /\ Len(out.filtered_df) < Len(df)
    /\ Len(out.most_renewable) = 1
    /\ \A i \in 1..Len(out.filtered_df) :
           DtYear(out.filtered_df[i].year) < MaxYear(df)

\* C9: once the table is loaded no interaction changes it: every run leaves
\* the rows and the columns of the stored table (and the memo of the load)
\* as they were, the run that derives the total_renewable column included.
C9_TableUnchanged ==
    [][runs >= 1 =>
          /\ df' = df
          /\ cache' = cache
          /\ \A i \in 1..Len(df') : DOMAIN df'[i] = FrameColumns]_vars

C9_Witness ==
    /\ runs = 2
    /\ file.status = "ok"
    /\ out.renewable_growth # <<>>
    /\ "total_renewable" \in DOMAIN out.renewable_growth[1]
    /\ Len(out.filtered_df) < Len(df)
    /\ df = cache.df

\* C10: the default year range (max_year - 10, max_year) lies inside the
\* slider bounds [min_year, max_year] whatever years the table covers.
C10_DefaultInsideSliderBounds ==
    out.ran =>
        /\ out.slider.min_value <= out.slider.value[1]
        /\ out.slider.value[1] <= out.slider.value[2]
        /\ out.slider.value[2] <= out.slider.max_value

====
